---------------------------- MODULE Spec2Model ----------------------------
(***************************************************************************)
(* A model of the Ansible integration helpers for Proxmox:                 *)
(*   proxmox_helpers/ansible_manager.py  (class AnsibleManager)            *)
(*   proxmox_helpers/ansible_cli.py      (the command line front end)      *)
(*                                                                         *)
(* A Python str is modelled as the sequence of its characters (one-letter  *)
(* TLA+ strings), so that endswith, replace, split, strip, join and the    *)
(* JSON conversions are computed character by character, as Python does.   *)
(* A Python value is a record tagged with its type: None, PyStr, PyInt,   *)
(* PyBool, PyList, PyDict; a dict is the sequence of its items in order.    *)
(***************************************************************************)
EXTENDS Integers, Sequences, FiniteSets, TLC

(***************************************************************************)
(* String literals of the two source files and of the inputs tried.        *)
(***************************************************************************)
EXT_YML == <<".", "y", "m", "l">>
EXT_YAML == <<".", "y", "a", "m", "l">>
EXT_MD == <<".", "m", "d">>
EXT_BAK == <<".", "b", "a", "k">>
EMPTY == <<>>
SEP_PATH == <<"/">>
SEP_COMMA == <<",">>
SEP_COMMA_SP == <<",", " ">>
SEP_COLON_SP == <<":", " ">>
SPACE == <<" ">>
QUOTE == <<"\"">>
LBRACE == <<"{">>
RBRACE == <<"}">>
LBRACKET == <<"[">>
RBRACKET == <<"]">>
MINUS == <<"-">>
JSON_NULL == <<"n", "u", "l", "l">>
JSON_TRUE == <<"t", "r", "u", "e">>
JSON_FALSE == <<"f", "a", "l", "s", "e">>
ANSIBLE_DIR == <<"/", "a", "n", "s", "i", "b", "l", "e">>
PLAYBOOKS == <<"p", "l", "a", "y", "b", "o", "o", "k", "s">>
ANSIBLE_PLAYBOOK == <<"a", "n", "s", "i", "b", "l", "e", "-", "p", "l", "a", "y", "b", "o", "o", "k">>
OPT_VVV == <<"-", "v", "v", "v">>
OPT_L == <<"-", "l">>
OPT_T == <<"-", "t">>
OPT_EXTRA_VARS == <<"-", "-", "e", "x", "t", "r", "a", "-", "v", "a", "r", "s">>
MSG_PLAYBOOK == <<"P", "l", "a", "y", "b", "o", "o", "k", " ", "'">>
MSG_NOT_FOUND == <<"'", " ", "n", "o", "t", " ", "f", "o", "u", "n", "d", ".", " ", "A", "v", "a", "i", "l", "a", "b", "l", "e", " ", "p", "l", "a", "y", "b", "o", "o", "k", "s", ":", " ">>
NOT_FOUND == <<"n", "o", "t", " ", "f", "o", "u", "n", "d">>
AVAILABLE == <<"A", "v", "a", "i", "l", "a", "b", "l", "e", " ", "p", "l", "a", "y", "b", "o", "o", "k", "s", ":", " ">>
MSG_ERROR == <<"E", "r", "r", "o", "r", ":", " ">>
MSG_EXCEPTION == <<"E", "x", "c", "e", "p", "t", "i", "o", "n", ":", " ">>
MSG_INVALID_OP == <<"I", "n", "v", "a", "l", "i", "d", " ", "o", "p", "e", "r", "a", "t", "i", "o", "n", " ", "'">>
MSG_MUST_BE == <<"'", ".", " ", "M", "u", "s", "t", " ", "b", "e", " ", "o", "n", "e", " ", "o", "f", ":", " ">>
PB_VM == <<"p", "r", "o", "x", "m", "o", "x", "_", "v", "m", "_", "m", "a", "n", "a", "g", "e", "r">>
PB_CT == <<"p", "r", "o", "x", "m", "o", "x", "_", "c", "o", "n", "t", "a", "i", "n", "e", "r", "_", "m", "a", "n", "a", "g", "e", "r">>
PB_CLUSTER == <<"p", "r", "o", "x", "m", "o", "x", "_", "c", "l", "u", "s", "t", "e", "r", "_", "m", "a", "n", "a", "g", "e", "r">>
PB_BACKUP == <<"p", "r", "o", "x", "m", "o", "x", "_", "b", "a", "c", "k", "u", "p", "_", "m", "a", "n", "a", "g", "e", "r">>
N_SETUP == <<"s", "e", "t", "u", "p">>
N_README == <<"R", "E", "A", "D", "M", "E">>
N_MY == <<"m", "y">>
N_NOPE == <<"n", "o", "p", "e">>
OP_CREATE == <<"c", "r", "e", "a", "t", "e">>
OP_START == <<"s", "t", "a", "r", "t">>
OP_STOP == <<"s", "t", "o", "p">>
OP_RESTART == <<"r", "e", "s", "t", "a", "r", "t">>
OP_DELETE == <<"d", "e", "l", "e", "t", "e">>
OP_BOGUS == <<"b", "o", "g", "u", "s">>
ST_PRESENT == <<"p", "r", "e", "s", "e", "n", "t">>
ST_STARTED == <<"s", "t", "a", "r", "t", "e", "d">>
ST_STOPPED == <<"s", "t", "o", "p", "p", "e", "d">>
ST_RESTARTED == <<"r", "e", "s", "t", "a", "r", "t", "e", "d">>
ST_ABSENT == <<"a", "b", "s", "e", "n", "t">>
OP_STATUS == <<"s", "t", "a", "t", "u", "s">>
OP_CREATE_CLUSTER == <<"c", "r", "e", "a", "t", "e", "_", "c", "l", "u", "s", "t", "e", "r">>
OP_JOIN_CLUSTER == <<"j", "o", "i", "n", "_", "c", "l", "u", "s", "t", "e", "r">>
OP_LEAVE_CLUSTER == <<"l", "e", "a", "v", "e", "_", "c", "l", "u", "s", "t", "e", "r">>
OP_ENABLE_HA == <<"e", "n", "a", "b", "l", "e", "_", "h", "a">>
OP_LIST == <<"l", "i", "s", "t">>
OP_RESTORE == <<"r", "e", "s", "t", "o", "r", "e">>
OP_SCHEDULE == <<"s", "c", "h", "e", "d", "u", "l", "e">>
K_VM_STATE == <<"v", "m", "_", "s", "t", "a", "t", "e">>
K_VM_ID == <<"v", "m", "_", "i", "d">>
K_VM_NAME == <<"v", "m", "_", "n", "a", "m", "e">>
K_VM_NODE == <<"v", "m", "_", "n", "o", "d", "e">>
K_CT_STATE == <<"c", "t", "_", "s", "t", "a", "t", "e">>
K_CT_ID == <<"c", "t", "_", "i", "d">>
K_CT_HOSTNAME == <<"c", "t", "_", "h", "o", "s", "t", "n", "a", "m", "e">>
K_CT_NODE == <<"c", "t", "_", "n", "o", "d", "e">>
K_OPERATION == <<"o", "p", "e", "r", "a", "t", "i", "o", "n">>
K_TARGET_NODE == <<"t", "a", "r", "g", "e", "t", "_", "n", "o", "d", "e">>
K_SOURCE_NODE == <<"s", "o", "u", "r", "c", "e", "_", "n", "o", "d", "e">>
K_CLUSTER_NAME == <<"c", "l", "u", "s", "t", "e", "r", "_", "n", "a", "m", "e">>
K_BACKUP_ID == <<"b", "a", "c", "k", "u", "p", "_", "i", "d">>
K_STORAGE == <<"s", "t", "o", "r", "a", "g", "e">>
K_NODE == <<"n", "o", "d", "e">>
K_MODE == <<"m", "o", "d", "e">>
K_COMPRESS == <<"c", "o", "m", "p", "r", "e", "s", "s">>
K_SCHEDULE_HOUR == <<"s", "c", "h", "e", "d", "u", "l", "e", "_", "h", "o", "u", "r">>
K_SCHEDULE_MINUTE == <<"s", "c", "h", "e", "d", "u", "l", "e", "_", "m", "i", "n", "u", "t", "e">>
K_SCHEDULE_DAY == <<"s", "c", "h", "e", "d", "u", "l", "e", "_", "d", "a", "y">>
K_SCHEDULE_MONTH == <<"s", "c", "h", "e", "d", "u", "l", "e", "_", "m", "o", "n", "t", "h">>
K_SCHEDULE_WEEKDAY == <<"s", "c", "h", "e", "d", "u", "l", "e", "_", "w", "e", "e", "k", "d", "a", "y">>
K_MEMORY == <<"m", "e", "m", "o", "r", "y">>
K_CORES == <<"c", "o", "r", "e", "s">>
K_DISK_SIZE == <<"d", "i", "s", "k", "_", "s", "i", "z", "e">>
K_TEMPLATE == <<"t", "e", "m", "p", "l", "a", "t", "e">>
K_ISO == <<"i", "s", "o">>
K_DISK == <<"d", "i", "s", "k">>
K_OSTEMPLATE == <<"o", "s", "t", "e", "m", "p", "l", "a", "t", "e">>
K_A == <<"a">>
K_B == <<"b">>
V_100 == <<"1", "0", "0">>
V_TEST == <<"t", "e", "s", "t">>
V_PVE1 == <<"p", "v", "e", "1">>
V_PVE2 == <<"p", "v", "e", "2">>
V_X == <<"x">>
V_0 == <<"0">>
V_B1 == <<"b", "1">>
V_LOCAL == <<"l", "o", "c", "a", "l">>
V_MYCLUSTER == <<"c", "1">>
V_SNAPSHOT == <<"s", "n", "a", "p", "s", "h", "o", "t">>
V_SUSPEND == <<"s", "u", "s", "p", "e", "n", "d">>
V_STOP == <<"s", "t", "o", "p">>
V_NONE == <<"n", "o", "n", "e">>
V_GZIP == <<"g", "z", "i", "p">>
V_LZO == <<"l", "z", "o">>
V_ZSTD == <<"z", "s", "t", "d">>
V_BZIP2 == <<"b", "z", "i", "p", "2">>
V_FULL == <<"f", "u", "l", "l">>
T_T1 == <<"t", "1">>
T_T2 == <<"t", "2">>
TAGS_T1_T2 == <<"t", "1", ",", " ", "t", "2">>
OUT_OK == <<"o", "k">>
ERR_UNREACHABLE == <<"h", "o", "s", "t", " ", "u", "n", "r", "e", "a", "c", "h", "a", "b", "l", "e">>
ERR_ENOENT == <<"N", "o", " ", "s", "u", "c", "h", " ", "f", "i", "l", "e">>
VARS_AB == <<"{", "\"", "a", "\"", ":", " ", "1", ",", " ", "\"", "b", "\"", ":", " ", "\"", "x", "\"", "}">>
VARS_COMPACT == <<"{", "\"", "a", "\"", ":", "1", "}">>
VARS_BAD == <<"{", "\"", "a", "\"", ":", " ">>
VARS_EMPTY_OBJ == <<"{", "}">>
ANSIBLE_CFG == <<"a", "n", "s", "i", "b", "l", "e", ".", "c", "f", "g">>
INVENTORY == <<"i", "n", "v", "e", "n", "t", "o", "r", "y">>
CMD_LIST == <<"l", "i", "s", "t">>
CMD_RUN == <<"r", "u", "n">>
CMD_VM == <<"v", "m">>
CMD_CT == <<"c", "t">>
CMD_CLUSTER == <<"c", "l", "u", "s", "t", "e", "r">>
CMD_BACKUP == <<"b", "a", "c", "k", "u", "p">>
CMD_BOGUS == <<"f", "r", "o", "b", "n", "i", "c", "a", "t", "e">>
D_COMMAND == <<"c", "o", "m", "m", "a", "n", "d">>
D_PLAYBOOK == <<"p", "l", "a", "y", "b", "o", "o", "k">>
D_VARS == <<"v", "a", "r", "s">>
D_LIMIT == <<"l", "i", "m", "i", "t">>
D_TAGS == <<"t", "a", "g", "s">>
D_VERBOSE == <<"v", "e", "r", "b", "o", "s", "e">>
D_HOSTNAME == <<"h", "o", "s", "t", "n", "a", "m", "e">>
D_FORCE == <<"f", "o", "r", "c", "e">>
F_VM_ID == <<"v", "m", "-", "i", "d">>
F_VM_NAME == <<"v", "m", "-", "n", "a", "m", "e">>
F_DISK_SIZE == <<"d", "i", "s", "k", "-", "s", "i", "z", "e">>
F_CT_ID == <<"c", "t", "-", "i", "d">>
F_TARGET_NODE == <<"t", "a", "r", "g", "e", "t", "-", "n", "o", "d", "e">>
F_SOURCE_NODE == <<"s", "o", "u", "r", "c", "e", "-", "n", "o", "d", "e">>
F_CLUSTER_NAME == <<"c", "l", "u", "s", "t", "e", "r", "-", "n", "a", "m", "e">>
F_BACKUP_ID == <<"b", "a", "c", "k", "u", "p", "-", "i", "d">>
F_SCHEDULE_HOUR == <<"s", "c", "h", "e", "d", "u", "l", "e", "-", "h", "o", "u", "r">>
F_SCHEDULE_MINUTE == <<"s", "c", "h", "e", "d", "u", "l", "e", "-", "m", "i", "n", "u", "t", "e">>
F_SCHEDULE_DAY == <<"s", "c", "h", "e", "d", "u", "l", "e", "-", "d", "a", "y">>
F_SCHEDULE_MONTH == <<"s", "c", "h", "e", "d", "u", "l", "e", "-", "m", "o", "n", "t", "h">>
F_SCHEDULE_WEEKDAY == <<"s", "c", "h", "e", "d", "u", "l", "e", "-", "w", "e", "e", "k", "d", "a", "y">>
HYPHEN == <<"-">>
UNDERSCORE == <<"_">>
V_2048 == <<"2", "0", "4", "8">>
V_ABC == <<"a", "b", "c">>

(***************************************************************************)
(* Python values.                                                          *)
(***************************************************************************)
None == [t |-> "none"]
PyStr(s) == [t |-> "str", s |-> s]
PyInt(n) == [t |-> "int", n |-> n]
PyBool(b) == [t |-> "bool", b |-> b]
PyList(xs) == [t |-> "list", xs |-> xs]
\* A dict is the sequence of its <<key, value>> items in insertion order.
PyDict(items) == [t |-> "dict", items |-> items]

\* bool(x): the truth value Python's `if x:` tests
Truthy(x) ==
    CASE x.t = "none" -> FALSE
      [] x.t = "bool" -> x.b
      [] x.t = "int"  -> x.n # 0
      [] x.t = "str"  -> x.s # <<>>
      [] x.t = "list" -> x.xs # <<>>
      [] x.t = "dict" -> x.items # <<>>

\* x or default
OrElse(x, default) == IF Truthy(x) THEN x ELSE default

(***************************************************************************)
(* str methods.                                                            *)
(***************************************************************************)
\* s[i-1:].startswith(p), positions counted from 1
OccursAt(s, i, p) ==
    /\ i + Len(p) - 1 <= Len(s)
    /\ \A k \in 1..Len(p) : s[i + k - 1] = p[k]

\* s.endswith(suffix)
EndsWith(s, suffix) ==
    /\ Len(suffix) <= Len(s)
    /\ OccursAt(s, Len(s) - Len(suffix) + 1, suffix)

\* s.endswith((a, b)): a tuple of suffixes
EndsWithAny(s, suffixes) == \E k \in 1..Len(suffixes) : EndsWith(s, suffixes[k])

\* p in s
Contains(s, p) == \E i \in 1..(Len(s) - Len(p) + 1) : OccursAt(s, i, p)

\* s.replace(old, new) for a non-empty old: every non-overlapping occurrence,
\* scanning from the left
RECURSIVE ReplaceFrom(_, _, _, _)
ReplaceFrom(s, i, old, new) ==
    IF i > Len(s) THEN <<>>
    ELSE IF OccursAt(s, i, old)
         THEN new \o ReplaceFrom(s, i + Len(old), old, new)
         ELSE <<s[i]>> \o ReplaceFrom(s, i + 1, old, new)

Replace(s, old, new) == ReplaceFrom(s, 1, old, new)

\* sep.join(parts)
RECURSIVE Join(_, _)
Join(sep, parts) ==
    IF parts = <<>> THEN <<>>
    ELSE IF Len(parts) = 1 THEN parts[1]
    ELSE parts[1] \o sep \o Join(sep, Tail(parts))

\* s.split(sep) for a one-character sep: never empty, "" gives [""]
RECURSIVE SplitFrom(_, _, _, _)
SplitFrom(s, i, sep, cur) ==
    IF i > Len(s) THEN <<cur>>
    ELSE IF <<s[i]>> = sep THEN <<cur>> \o SplitFrom(s, i + 1, sep, <<>>)
    ELSE SplitFrom(s, i + 1, sep, Append(cur, s[i]))

Split(s, sep) == SplitFrom(s, 1, sep, <<>>)

\* s.strip(): leading and trailing blanks removed
RECURSIVE LStrip(_)
LStrip(s) == IF s # <<>> /\ s[1] = " " THEN LStrip(Tail(s)) ELSE s

RECURSIVE RStrip(_)
RStrip(s) ==
    IF s # <<>> /\ s[Len(s)] = " " THEN RStrip(SubSeq(s, 1, Len(s) - 1)) ELSE s

Strip(s) == RStrip(LStrip(s))

\* os.path.join(a, b) for a relative b (a directory entry holds no separator)
PathJoin(a, b) == a \o SEP_PATH \o b

(***************************************************************************)
(* dict methods.                                                           *)
(***************************************************************************)
Keys(items) == [i \in 1..Len(items) |-> items[i][1]]

HasKey(items, k) == \E i \in 1..Len(items) : items[i][1] = k

\* d[k] for a key of d
Get(items, k) == items[CHOOSE i \in 1..Len(items) : items[i][1] = k][2]

\* d[k] = x: a known key keeps its place, a new key goes last
SetItem(items, k, x) ==
    IF HasKey(items, k)
    THEN [i \in 1..Len(items) |-> IF items[i][1] = k THEN <<k, x>> ELSE items[i]]
    ELSE Append(items, <<k, x>>)

\* d.update(other)
RECURSIVE Update(_, _)
Update(items, other) ==
    IF other = <<>> THEN items
    ELSE Update(SetItem(items, other[1][1], other[1][2]), Tail(other))

(***************************************************************************)
(* json.dumps and json.loads, for the values the inputs hold: None, bool,  *)
(* int, str, list and dict with str keys.  Escapes other than \" \\ \/,    *)
(* fractions and exponents do not occur in the inputs and are not parsed.  *)
(***************************************************************************)
Digits == <<"0", "1", "2", "3", "4", "5", "6", "7", "8", "9">>

IsDigit(c) == \E d \in 1..10 : Digits[d] = c

DigitVal(c) == (CHOOSE d \in 1..10 : Digits[d] = c) - 1

RECURSIVE NatToStr(_)
NatToStr(n) ==
    IF n < 10 THEN <<Digits[n + 1]>>
    ELSE NatToStr(n \div 10) \o <<Digits[(n % 10) + 1]>>

\* str(n) for an int
IntToStr(n) == IF n < 0 THEN MINUS \o NatToStr(-n) ELSE NatToStr(n)

\* the body of a JSON string: a quote or a backslash gets a backslash before it
RECURSIVE JsonEscape(_)
JsonEscape(s) ==
    IF s = <<>> THEN <<>>
    ELSE (IF s[1] \in {"\"", "\\"} THEN <<"\\", s[1]>> ELSE <<s[1]>>)
         \o JsonEscape(Tail(s))

JsonQuote(s) == QUOTE \o JsonEscape(s) \o QUOTE

\* json.dumps(x) with the default separators (", " and ": ")
RECURSIVE JsonDumps(_)
JsonDumps(x) ==
    CASE x.t = "none" -> JSON_NULL
      [] x.t = "bool" -> IF x.b THEN JSON_TRUE ELSE JSON_FALSE
      [] x.t = "int"  -> IntToStr(x.n)
      [] x.t = "str"  -> JsonQuote(x.s)
      [] x.t = "list" ->
            LBRACKET
            \o Join(SEP_COMMA_SP, [i \in 1..Len(x.xs) |-> JsonDumps(x.xs[i])])
            \o RBRACKET
      [] x.t = "dict" ->
            LBRACE
            \o Join(SEP_COMMA_SP,
                    [i \in 1..Len(x.items) |->
                        JsonQuote(x.items[i][1]) \o SEP_COLON_SP \o JsonDumps(x.items[i][2])])
            \o RBRACE

\* A parse step: whether it succeeded, the value read, the next position.
Parsed(x, next) == [ok |-> TRUE, v |-> x, next |-> next]
ParseFail == [ok |-> FALSE, v |-> None, next |-> 0]

CharAt(s, i) == IF i \in 1..Len(s) THEN s[i] ELSE ""

RECURSIVE SkipWs(_, _)
SkipWs(s, i) == IF CharAt(s, i) = " " THEN SkipWs(s, i + 1) ELSE i

\* after the opening quote: up to the closing quote
RECURSIVE ParseStringBody(_, _, _)
ParseStringBody(s, i, acc) ==
    IF i > Len(s) THEN ParseFail
    ELSE IF s[i] = "\"" THEN Parsed(PyStr(acc), i + 1)
    ELSE IF s[i] = "\\"
         THEN IF CharAt(s, i + 1) \in {"\"", "\\", "/"}
              THEN ParseStringBody(s, i + 2, Append(acc, s[i + 1]))
              ELSE ParseFail
    ELSE ParseStringBody(s, i + 1, Append(acc, s[i]))

RECURSIVE ParseDigits(_, _, _)
ParseDigits(s, i, acc) ==
    IF IsDigit(CharAt(s, i))
    THEN ParseDigits(s, i + 1, 10 * acc + DigitVal(s[i]))
    ELSE Parsed(PyInt(acc), i)

\* an integer: an optional minus, then 0 or a digit string with no leading 0
ParseNat(s, i) ==
    IF ~IsDigit(CharAt(s, i)) THEN ParseFail
    ELSE IF s[i] = "0" THEN Parsed(PyInt(0), i + 1)
    ELSE ParseDigits(s, i, 0)

ParseNumber(s, i) ==
    IF CharAt(s, i) = "-"
    THEN LET r == ParseNat(s, i + 1)
         IN  IF r.ok THEN Parsed(PyInt(-r.v.n), r.next) ELSE ParseFail
    ELSE ParseNat(s, i)

ParseWord(s, i, word, x) ==
    IF OccursAt(s, i, word) THEN Parsed(x, i + Len(word)) ELSE ParseFail

RECURSIVE ParseValue(_, _)
RECURSIVE ParseMembers(_, _, _)
RECURSIVE ParseElements(_, _, _)

\* the members of an object from position i (a key is due there)
ParseMembers(s, i, acc) ==
    IF CharAt(s, i) # "\"" THEN ParseFail
    ELSE LET k == ParseStringBody(s, i + 1, <<>>)
         IN  IF ~k.ok THEN ParseFail
             ELSE LET c == SkipWs(s, k.next)
                  IN  IF CharAt(s, c) # ":" THEN ParseFail
                      ELSE LET x == ParseValue(s, c + 1)
                           IN  IF ~x.ok THEN ParseFail
                               ELSE LET e == SkipWs(s, x.next)
                                        items == SetItem(acc, k.v.s, x.v)
                                    IN  IF CharAt(s, e) = "}"
                                        THEN Parsed(PyDict(items), e + 1)
                                        ELSE IF CharAt(s, e) = ","
                                        THEN ParseMembers(s, SkipWs(s, e + 1), items)
                                        ELSE ParseFail

\* the elements of an array from position i (a value is due there)
ParseElements(s, i, acc) ==
    LET x == ParseValue(s, i)
    IN  IF ~x.ok THEN ParseFail
        ELSE LET e == SkipWs(s, x.next)
             IN  IF CharAt(s, e) = "]" THEN Parsed(PyList(Append(acc, x.v)), e + 1)
                 ELSE IF CharAt(s, e) = "," THEN ParseElements(s, e + 1, Append(acc, x.v))
                 ELSE ParseFail

ParseValue(s, i) ==
    LET j == SkipWs(s, i)
        c == CharAt(s, j)
    IN  CASE c = "{" ->
                IF CharAt(s, SkipWs(s, j + 1)) = "}"
                THEN Parsed(PyDict(<<>>), SkipWs(s, j + 1) + 1)
                ELSE ParseMembers(s, SkipWs(s, j + 1), <<>>)
          [] c = "[" ->
                IF CharAt(s, SkipWs(s, j + 1)) = "]"
                THEN Parsed(PyList(<<>>), SkipWs(s, j + 1) + 1)
                ELSE ParseElements(s, j + 1, <<>>)
          [] c = "\"" -> ParseStringBody(s, j + 1, <<>>)
          [] c = "n" -> ParseWord(s, j, JSON_NULL, None)
          [] c = "t" -> ParseWord(s, j, JSON_TRUE, PyBool(TRUE))
          [] c = "f" -> ParseWord(s, j, JSON_FALSE, PyBool(FALSE))
          [] c = "-" \/ IsDigit(c) -> ParseNumber(s, j)
          [] OTHER -> ParseFail

\* json.loads(s): ok is FALSE where Python raises JSONDecodeError
JsonLoads(s) ==
    LET r == ParseValue(s, 1)
    IN  IF r.ok /\ SkipWs(s, r.next) > Len(s) THEN r ELSE ParseFail

(***************************************************************************)
(* The file system and the external tool: the inputs of the program.       *)
(***************************************************************************)
\* the ansible_path the manager is constructed with
ansible_path == ANSIBLE_DIR

inventory_path == PathJoin(ansible_path, INVENTORY)

playbooks_path == PathJoin(ansible_path, PLAYBOOKS)

\* The names a playbooks directory may hold.
FileNames ==
    { PB_VM \o EXT_YML, PB_VM \o EXT_YAML, PB_CT \o EXT_YAML,
      PB_CLUSTER \o EXT_YML, PB_BACKUP \o EXT_YML,
      N_README \o EXT_MD, N_MY \o EXT_YML \o EXT_BAK \o EXT_YML }

\* The most entries a directory holds.
MaxFiles == 2

\* os.listdir: the entries of a directory, each once, in an arbitrary order.
\* A directory that does not exist is created empty by _verify_paths.
Listings ==
    UNION { { l \in [1..n -> FileNames] :
                \A i, j \in 1..n : i # j => l[i] # l[j] } : n \in 0..MaxFiles }

\* What subprocess.run does with a command: the process exits with a code and
\* its two captured streams, or it cannot be started and an exception is raised.
Exited(code, out, err) ==
    [kind |-> "exit", returncode |-> code, stdout |-> out, stderr |-> err,
     error |-> EMPTY]

Raised(description) ==
    [kind |-> "raise", returncode |-> 0, stdout |-> EMPTY, stderr |-> EMPTY,
     error |-> description]

Outcomes ==
    { Exited(0, OUT_OK, V_X), Exited(2, OUT_OK, ERR_UNREACHABLE), Raised(ERR_ENOENT) }

(***************************************************************************)
(* class AnsibleManager.                                                   *)
(***************************************************************************)
\* the tuple of extensions _scan_playbooks accepts
Extensions == <<EXT_YML, EXT_YAML>>

\* the name _scan_playbooks derives from a file name
PlaybookName(file) == Replace(Replace(file, EXT_YML, EMPTY), EXT_YAML, EMPTY)

\* the loop of _scan_playbooks over the rest of the listing
RECURSIVE ScanFrom(_, _)
ScanFrom(listing, playbooks) ==
    IF listing = <<>> THEN playbooks
    ELSE LET file == listing[1]
         IN  ScanFrom(Tail(listing),
                      IF EndsWithAny(file, Extensions)
                      THEN SetItem(playbooks, PlaybookName(file),
                                   PathJoin(playbooks_path, file))
                      ELSE playbooks)

\* _scan_playbooks(), given os.listdir(self.playbooks_path)
_scan_playbooks(listing) == ScanFrom(listing, <<>>)

\* list_playbooks(): self is self.available_playbooks
list_playbooks(self) == Keys(self)

\* What a method did: the (success, output) it returned, the arguments it
\* entered run_playbook with, and the subprocess.run call made.
NotCalled == [called |-> FALSE]
NotRun == [ran |-> FALSE]

Entered(playbook_name, extra_vars, limit_hosts, tags, verbose) ==
    [called |-> TRUE, playbook_name |-> playbook_name, extra_vars |-> extra_vars,
     limit_hosts |-> limit_hosts, tags |-> tags, verbose |-> verbose]

Ran(cmd, outcome) ==
    [ran |-> TRUE, cmd |-> cmd, outcome |-> outcome,
     env_ANSIBLE_CONFIG |-> PathJoin(ansible_path, ANSIBLE_CFG),
     cwd |-> ansible_path]

Done(success, output, runner, subprocess) ==
    [result |-> <<success, output>>, runner |-> runner, subprocess |-> subprocess]

\* the message without the names
NotFoundMessage_NoNames(self, playbook_name) ==
    MSG_PLAYBOOK \o playbook_name \o MSG_NOT_FOUND

\* the message of run_playbook for a name that is no key of the registry
NotFoundMessage(self, playbook_name) ==
    MSG_PLAYBOOK \o playbook_name \o MSG_NOT_FOUND
    \o Join(SEP_COMMA_SP, list_playbooks(self))

\* the cmd list with the tags joined by ", "
BuildCommand_TagsSpaced(playbook_path, extra_vars, limit_hosts, tags, verbose) ==
    <<ANSIBLE_PLAYBOOK, playbook_path>>
    \o (IF Truthy(verbose) THEN <<OPT_VVV>> ELSE <<>>)
    \o (IF Truthy(limit_hosts) THEN <<OPT_L, limit_hosts.s>> ELSE <<>>)
    \o (IF Truthy(tags)
        THEN <<OPT_T, Join(SEP_COMMA_SP, [i \in 1..Len(tags.xs) |-> tags.xs[i].s])>>
        ELSE <<>>)
    \o (IF Truthy(extra_vars) THEN <<OPT_EXTRA_VARS, JsonDumps(extra_vars)>> ELSE <<>>)

\* the cmd list run_playbook builds
BuildCommand(playbook_path, extra_vars, limit_hosts, tags, verbose) ==
    <<ANSIBLE_PLAYBOOK, playbook_path>>
    \o (IF Truthy(verbose) THEN <<OPT_VVV>> ELSE <<>>)
    \o (IF Truthy(limit_hosts) THEN <<OPT_L, limit_hosts.s>> ELSE <<>>)
    \o (IF Truthy(tags)
        THEN <<OPT_T, Join(SEP_COMMA, [i \in 1..Len(tags.xs) |-> tags.xs[i].s])>>
        ELSE <<>>)
    \o (IF Truthy(extra_vars) THEN <<OPT_EXTRA_VARS, JsonDumps(extra_vars)>> ELSE <<>>)

\* the try block without the test of returncode
RunResult_IgnoresReturncode(outcome) ==
    IF outcome.kind = "raise" THEN <<FALSE, MSG_EXCEPTION \o outcome.error>>
    ELSE <<TRUE, outcome.stdout>>

\* the try block of run_playbook: the (success, output) for an outcome
RunResult(outcome) ==
    IF outcome.kind = "raise" THEN <<FALSE, MSG_EXCEPTION \o outcome.error>>
    ELSE IF outcome.returncode = 0 THEN <<TRUE, outcome.stdout>>
    ELSE <<FALSE, MSG_ERROR \o outcome.stderr>>

\* run_playbook that takes a name the registry lacks for the path itself
\* (self.available_playbooks.get(playbook_name, playbook_name))
run_playbook_FallsBack(self, playbook_name, extra_vars, limit_hosts, tags, verbose, outcome) ==
    LET runner == Entered(playbook_name, extra_vars, limit_hosts, tags, verbose)
        playbook_path == IF HasKey(self, playbook_name) THEN Get(self, playbook_name)
                         ELSE playbook_name
        cmd == BuildCommand(playbook_path, extra_vars, limit_hosts, tags, verbose)
        r == RunResult(outcome)
    IN  Done(r[1], r[2], runner, Ran(cmd, outcome))

\* run_playbook(playbook_name, extra_vars, limit_hosts, tags, verbose)
run_playbook(self, playbook_name, extra_vars, limit_hosts, tags, verbose, outcome) ==
    LET runner == Entered(playbook_name, extra_vars, limit_hosts, tags, verbose)
    IN  IF ~HasKey(self, playbook_name)
        THEN Done(FALSE, NotFoundMessage(self, playbook_name), runner, NotRun)
        ELSE LET cmd == BuildCommand(Get(self, playbook_name), extra_vars,
                                     limit_hosts, tags, verbose)
                 r == RunResult(outcome)
             IN  Done(r[1], r[2], runner, Ran(cmd, outcome))

\* op_map of run_vm_management and of run_container_management
op_map ==
    << <<OP_CREATE, ST_PRESENT>>, <<OP_START, ST_STARTED>>, <<OP_STOP, ST_STOPPED>>,
       <<OP_RESTART, ST_RESTARTED>>, <<OP_DELETE, ST_ABSENT>> >>

\* valid_operations of run_backup_management
valid_operations == <<OP_LIST, OP_CREATE, OP_RESTORE, OP_DELETE, OP_SCHEDULE>>

InvalidOperationMessage(operation, valid) ==
    MSG_INVALID_OP \o operation \o MSG_MUST_BE \o Join(SEP_COMMA_SP, valid)

\* extra_vars[key] = value if value is truthy
SetIfTruthy(items, key, value) ==
    IF Truthy(value) THEN SetItem(items, key, value) ELSE items

\* the extra_vars with vm_node set whether or not a node is given
VmExtraVars_NodeAlways(operation, vm_id, vm_name, node, kwargs) ==
    Update(<< <<K_VM_STATE, PyStr(Get(op_map, operation))>>,
              <<K_VM_ID, vm_id>>, <<K_VM_NAME, vm_name>>, <<K_VM_NODE, node>> >>,
           kwargs)

\* the extra_vars run_vm_management builds
VmExtraVars(operation, vm_id, vm_name, node, kwargs) ==
    Update(SetIfTruthy(<< <<K_VM_STATE, PyStr(Get(op_map, operation))>>,
                          <<K_VM_ID, vm_id>>, <<K_VM_NAME, vm_name>> >>,
                       K_VM_NODE, node),
           kwargs)

run_vm_management(self, operation, vm_id, vm_name, node, kwargs, outcome) ==
    IF ~HasKey(op_map, operation)
    THEN Done(FALSE, InvalidOperationMessage(operation, Keys(op_map)),
              NotCalled, NotRun)
    ELSE run_playbook(self, PB_VM,
                      PyDict(VmExtraVars(operation, vm_id, vm_name, node, kwargs)),
                      None, None, PyBool(FALSE), outcome)

\* the extra_vars run_container_management builds
CtExtraVars(operation, ct_id, ct_hostname, node, kwargs) ==
    Update(SetIfTruthy(<< <<K_CT_STATE, PyStr(Get(op_map, operation))>>,
                          <<K_CT_ID, ct_id>>, <<K_CT_HOSTNAME, ct_hostname>> >>,
                       K_CT_NODE, node),
           kwargs)

run_container_management(self, operation, ct_id, ct_hostname, node, kwargs, outcome) ==
    IF ~HasKey(op_map, operation)
    THEN Done(FALSE, InvalidOperationMessage(operation, Keys(op_map)),
              NotCalled, NotRun)
    ELSE run_playbook(self, PB_CT,
                      PyDict(CtExtraVars(operation, ct_id, ct_hostname, node, kwargs)),
                      None, None, PyBool(FALSE), outcome)

\* the extra_vars run_cluster_management builds
ClusterExtraVars(operation, target_node, source_node, cluster_name, kwargs) ==
    Update(SetIfTruthy(SetIfTruthy(SetIfTruthy(<< <<K_OPERATION, PyStr(operation)>> >>,
                                               K_TARGET_NODE, target_node),
                                   K_SOURCE_NODE, source_node),
                       K_CLUSTER_NAME, cluster_name),
           kwargs)

\* run_cluster_management handing verbose=True to run_playbook
run_cluster_management_Verbose(self, operation, target_node, source_node, cluster_name, kwargs, outcome) ==
    run_playbook(self, PB_CLUSTER,
                 PyDict(ClusterExtraVars(operation, target_node, source_node,
                                         cluster_name, kwargs)),
                 None, None, PyBool(TRUE), outcome)

\* run_cluster_management: the operation is not looked at
run_cluster_management(self, operation, target_node, source_node, cluster_name, kwargs, outcome) ==
    run_playbook(self, PB_CLUSTER,
                 PyDict(ClusterExtraVars(operation, target_node, source_node,
                                         cluster_name, kwargs)),
                 None, None, PyBool(FALSE), outcome)

\* the extra_vars run_backup_management builds
BackupExtraVars(operation, vm_id, backup_id, storage, node, kwargs) ==
    Update(SetIfTruthy(SetIfTruthy(SetIfTruthy(SetIfTruthy(
                << <<K_OPERATION, PyStr(operation)>> >>,
                K_VM_ID, vm_id), K_BACKUP_ID, backup_id), K_STORAGE, storage),
                K_NODE, node),
           kwargs)

run_backup_management(self, operation, vm_id, backup_id, storage, node, kwargs, outcome) ==
    IF \A i \in 1..Len(valid_operations) : valid_operations[i] # operation
    THEN Done(FALSE, InvalidOperationMessage(operation, valid_operations),
              NotCalled, NotRun)
    ELSE run_playbook(self, PB_BACKUP,
                      PyDict(BackupExtraVars(operation, vm_id, backup_id, storage,
                                             node, kwargs)),
                      None, None, PyBool(FALSE), outcome)

(***************************************************************************)
(* State.                                                                  *)
(***************************************************************************)
VARIABLES
    listing,              \* what os.listdir(playbooks_path) gave the scan
    available_playbooks,  \* self.available_playbooks: name -> path
    pc,                   \* where the caller, or the command line process, is
    call,                 \* the method called last, with its arguments
    runner,               \* the arguments run_playbook was entered with
    subprocess,           \* the subprocess.run call made, with its outcome
    result,               \* what the method returned
    argv,                 \* the command line of the process
    args,                 \* the Namespace parse_args returned
    exit_code,            \* the exit status of the process
    scans,                \* directory scans made by the process
    runs                  \* subprocess.run calls made by the process

vars ==
    <<listing, available_playbooks, pc, call, runner, subprocess, result,
      argv, args, exit_code, scans, runs>>

cliVars == <<argv, args, exit_code, scans, runs>>

NoCall == [method |-> "none"]
NoResult == <<>>
NoArgv == [given |-> FALSE]
NoArgs == <<>>
Running == None

(***************************************************************************)
(* A caller holding an AnsibleManager: Init is the state after __init__,   *)
(* each action is one method call, Return hands the result to the caller.  *)
(***************************************************************************)
Init ==
    /\ listing \in Listings
    /\ available_playbooks = _scan_playbooks(listing)
    /\ pc = "ready"
    /\ call = NoCall
    /\ runner = NotCalled
    /\ subprocess = NotRun
    /\ result = NoResult
    /\ argv = NoArgv
    /\ args = NoArgs
    /\ exit_code = Running
    /\ scans = 0
    /\ runs = 0

\* the return of a method that takes the playbook it ran out of the registry
\* (self.available_playbooks.pop(playbook_name) for the lookup)
Returns_PopsRegistry(method, arguments, done) ==
    /\ call' = [method |-> method, args |-> arguments]
    /\ \E d \in { done } :
          /\ runner' = d.runner
          /\ subprocess' = d.subprocess
          /\ result' = d.result
          /\ available_playbooks' =
                IF d.subprocess.ran
                THEN LET Others(item) == item[1] # d.runner.playbook_name
                     IN  SelectSeq(available_playbooks, Others)
                ELSE available_playbooks
    /\ pc' = "returned"
    /\ UNCHANGED listing
    /\ UNCHANGED cliVars

\* The method returns: what it did becomes the state.
Returns(method, arguments, done) ==
    /\ call' = [method |-> method, args |-> arguments]
    /\ \E d \in { done } :
          /\ runner' = d.runner
          /\ subprocess' = d.subprocess
          /\ result' = d.result
    /\ pc' = "returned"
    /\ UNCHANGED <<listing, available_playbooks>>
    /\ UNCHANGED cliVars

\* The arguments the caller tries.
\* a caller may hand a path where a playbook name is expected
PathTried == PathJoin(playbooks_path, PB_VM \o EXT_YML)

NamesTried == {Keys(available_playbooks)[i] : i \in 1..Len(available_playbooks)}
              \cup {N_NOPE, PathTried}

ExtraVarsTried ==
    { None, PyDict(<<>>), PyDict(<< <<K_A, PyInt(1)>>, <<K_B, PyStr(V_X)>> >>) }

LimitsTried == { None, PyStr(EMPTY), PyStr(V_PVE1) }

TagsTried == { None, PyList(<<>>), PyList(<<PyStr(T_T1), PyStr(T_T2)>>) }

Booleans == { PyBool(FALSE), PyBool(TRUE) }

LifecycleOperations == { OP_CREATE, OP_START, OP_STOP, OP_RESTART, OP_DELETE, OP_BOGUS }

ClusterOperations ==
    { OP_STATUS, OP_CREATE_CLUSTER, OP_JOIN_CLUSTER, OP_LEAVE_CLUSTER,
      OP_ENABLE_HA, OP_BOGUS }

BackupOperations ==
    { OP_LIST, OP_CREATE, OP_RESTORE, OP_DELETE, OP_SCHEDULE, OP_BOGUS }

IdsTried == { None, PyStr(V_100) }

NamesGiven == { PyStr(V_TEST) }

NodesTried == { None, PyStr(EMPTY), PyStr(V_PVE1) }

\* **kwargs of the lifecycle mappers: no name of a positional parameter can be
\* a key, any other name can
VmKwargsTried ==
    { <<>>, << <<K_MEMORY, PyInt(2048)>> >>,
      << <<K_VM_STATE, PyStr(ST_ABSENT)>> >>, << <<K_VM_NODE, PyStr(V_PVE2)>> >> }

CtKwargsTried ==
    { <<>>, << <<K_MEMORY, PyInt(2048)>> >>,
      << <<K_CT_STATE, PyStr(ST_ABSENT)>> >>, << <<K_CT_NODE, PyStr(V_PVE2)>> >> }

ClusterKwargsTried == { <<>> }

BackupIdsTried == { None, PyInt(0), PyStr(V_0) }

BackupKwargsTried ==
    { <<>>,
      << <<K_MODE, PyStr(V_SNAPSHOT)>>, <<K_COMPRESS, PyStr(V_0)>>,
         <<K_SCHEDULE_HOUR, PyInt(0)>>, <<K_SCHEDULE_MINUTE, PyStr(V_0)>>,
         <<K_SCHEDULE_DAY, PyStr(V_X)>>, <<K_SCHEDULE_MONTH, PyStr(V_X)>>,
         <<K_SCHEDULE_WEEKDAY, PyStr(V_X)>> >> }

ListPlaybooks ==
    /\ pc = "ready"
    /\ Returns("list_playbooks", <<>>,
               [result |-> list_playbooks(available_playbooks),
                runner |-> NotCalled, subprocess |-> NotRun])

RunPlaybook ==
    /\ pc = "ready"
    /\ \E playbook_name \in NamesTried, extra_vars \in ExtraVarsTried,
          limit_hosts \in LimitsTried, tags \in TagsTried, verbose \in Booleans,
          outcome \in Outcomes :
          Returns("run_playbook",
                  [playbook_name |-> playbook_name, extra_vars |-> extra_vars,
                   limit_hosts |-> limit_hosts, tags |-> tags, verbose |-> verbose],
                  run_playbook(available_playbooks, playbook_name, extra_vars,
                               limit_hosts, tags, verbose, outcome))

RunVmManagement ==
    /\ pc = "ready"
    /\ \E operation \in LifecycleOperations, vm_id \in IdsTried,
          vm_name \in NamesGiven, node \in NodesTried,
          kwargs \in VmKwargsTried, outcome \in Outcomes :
          Returns("run_vm_management",
                  [operation |-> operation, vm_id |-> vm_id, vm_name |-> vm_name,
                   node |-> node, kwargs |-> kwargs],
                  run_vm_management(available_playbooks, operation, vm_id, vm_name,
                                    node, kwargs, outcome))

RunContainerManagement ==
    /\ pc = "ready"
    /\ \E operation \in LifecycleOperations, ct_id \in IdsTried,
          ct_hostname \in NamesGiven, node \in NodesTried,
          kwargs \in CtKwargsTried, outcome \in Outcomes :
          Returns("run_container_management",
                  [operation |-> operation, ct_id |-> ct_id,
                   ct_hostname |-> ct_hostname, node |-> node, kwargs |-> kwargs],
                  run_container_management(available_playbooks, operation, ct_id,
                                           ct_hostname, node, kwargs, outcome))

RunClusterManagement ==
    /\ pc = "ready"
    /\ \E operation \in ClusterOperations, target_node \in { None, PyStr(V_PVE1) },
          source_node \in { None, PyStr(V_PVE2) },
          cluster_name \in { None, PyStr(V_MYCLUSTER) },
          kwargs \in ClusterKwargsTried, outcome \in Outcomes :
          Returns("run_cluster_management",
                  [operation |-> operation, target_node |-> target_node,
                   source_node |-> source_node, cluster_name |-> cluster_name,
                   kwargs |-> kwargs],
                  run_cluster_management(available_playbooks, operation, target_node,
                                         source_node, cluster_name, kwargs, outcome))

RunBackupManagement ==
    /\ pc = "ready"
    /\ \E operation \in BackupOperations, vm_id \in BackupIdsTried,
          backup_id \in { None, PyStr(V_B1) }, storage \in { None, PyStr(V_LOCAL) },
          node \in { None, PyStr(V_PVE1) }, kwargs \in BackupKwargsTried,
          outcome \in Outcomes :
          Returns("run_backup_management",
                  [operation |-> operation, vm_id |-> vm_id, backup_id |-> backup_id,
                   storage |-> storage, node |-> node, kwargs |-> kwargs],
                  run_backup_management(available_playbooks, operation, vm_id,
                                        backup_id, storage, node, kwargs, outcome))

\* The caller takes the result; the manager is ready for the next call.
Return ==
    /\ pc = "returned"
    /\ pc' = "ready"
    /\ call' = NoCall
    /\ runner' = NotCalled
    /\ subprocess' = NotRun
    /\ result' = NoResult
    /\ UNCHANGED <<listing, available_playbooks>>
    /\ UNCHANGED cliVars

Next ==
    \/ ListPlaybooks
    \/ RunPlaybook
    \/ RunVmManagement
    \/ RunContainerManagement
    \/ RunClusterManagement
    \/ RunBackupManagement
    \/ Return

Spec == Init /\ [][Next]_vars

(***************************************************************************)
(* ansible_cli.py: parse_args.  A command line is the sub-command word (or *)
(* None) and the options given after it, each <<name, value>> with the     *)
(* name as written after the two dashes; argparse's own rules (an unknown  *)
(* sub-command or option, a missing required option, a value outside the   *)
(* choices, a value int() rejects: usage error, exit status 2) are taken   *)
(* from the add_argument calls.                                            *)
(***************************************************************************)
Option(name, required, choices, type) ==
    [name |-> name, required |-> required, choices |-> choices, type |-> type]

NoChoices == <<>>

\* run_parser.add_argument(...)
RunOptions ==
    << Option(D_PLAYBOOK, TRUE, NoChoices, "str"),
       Option(D_VARS, FALSE, NoChoices, "str"),
       Option(D_LIMIT, FALSE, NoChoices, "str"),
       Option(D_TAGS, FALSE, NoChoices, "str"),
       Option(D_VERBOSE, FALSE, NoChoices, "store_true") >>

\* vm_parser.add_argument(...)
VmOptions ==
    << Option(K_OPERATION, TRUE,
              <<OP_CREATE, OP_START, OP_STOP, OP_RESTART, OP_DELETE>>, "str"),
       Option(F_VM_ID, FALSE, NoChoices, "str"),
       Option(F_VM_NAME, FALSE, NoChoices, "str"),
       Option(K_NODE, FALSE, NoChoices, "str"),
       Option(K_MEMORY, FALSE, NoChoices, "int"),
       Option(K_CORES, FALSE, NoChoices, "int"),
       Option(F_DISK_SIZE, FALSE, NoChoices, "str"),
       Option(K_STORAGE, FALSE, NoChoices, "str"),
       Option(K_TEMPLATE, FALSE, NoChoices, "str"),
       Option(K_ISO, FALSE, NoChoices, "str") >>

\* ct_parser.add_argument(...)
CtOptions ==
    << Option(K_OPERATION, TRUE,
              <<OP_CREATE, OP_START, OP_STOP, OP_RESTART, OP_DELETE>>, "str"),
       Option(F_CT_ID, FALSE, NoChoices, "str"),
       Option(D_HOSTNAME, FALSE, NoChoices, "str"),
       Option(K_NODE, FALSE, NoChoices, "str"),
       Option(K_MEMORY, FALSE, NoChoices, "int"),
       Option(K_CORES, FALSE, NoChoices, "int"),
       Option(K_DISK, FALSE, NoChoices, "str"),
       Option(K_STORAGE, FALSE, NoChoices, "str"),
       Option(K_OSTEMPLATE, FALSE, NoChoices, "str") >>

\* cluster_parser.add_argument(...)
ClusterOptions ==
    << Option(K_OPERATION, TRUE,
              <<OP_STATUS, OP_CREATE_CLUSTER, OP_JOIN_CLUSTER, OP_LEAVE_CLUSTER,
                OP_ENABLE_HA>>, "str"),
       Option(F_TARGET_NODE, FALSE, NoChoices, "str"),
       Option(F_SOURCE_NODE, FALSE, NoChoices, "str"),
       Option(F_CLUSTER_NAME, FALSE, NoChoices, "str") >>

\* the backup options with no choices set for --compress
BackupOptions_AnyCompress ==
    << Option(K_OPERATION, TRUE,
              <<OP_LIST, OP_CREATE, OP_RESTORE, OP_DELETE, OP_SCHEDULE>>, "str"),
       Option(F_VM_ID, FALSE, NoChoices, "str"),
       Option(F_BACKUP_ID, FALSE, NoChoices, "str"),
       Option(K_STORAGE, FALSE, NoChoices, "str"),
       Option(K_NODE, FALSE, NoChoices, "str"),
       Option(K_MODE, FALSE, <<V_SNAPSHOT, V_SUSPEND, V_STOP>>, "str"),
       Option(K_COMPRESS, FALSE, NoChoices, "str"),
       Option(F_SCHEDULE_HOUR, FALSE, NoChoices, "str"),
       Option(F_SCHEDULE_MINUTE, FALSE, NoChoices, "str"),
       Option(F_SCHEDULE_DAY, FALSE, NoChoices, "str"),
       Option(F_SCHEDULE_MONTH, FALSE, NoChoices, "str"),
       Option(F_SCHEDULE_WEEKDAY, FALSE, NoChoices, "str") >>

\* backup_parser.add_argument(...)
BackupOptions ==
    << Option(K_OPERATION, TRUE,
              <<OP_LIST, OP_CREATE, OP_RESTORE, OP_DELETE, OP_SCHEDULE>>, "str"),
       Option(F_VM_ID, FALSE, NoChoices, "str"),
       Option(F_BACKUP_ID, FALSE, NoChoices, "str"),
       Option(K_STORAGE, FALSE, NoChoices, "str"),
       Option(K_NODE, FALSE, NoChoices, "str"),
       Option(K_MODE, FALSE, <<V_SNAPSHOT, V_SUSPEND, V_STOP>>, "str"),
       Option(K_COMPRESS, FALSE, <<V_0, V_GZIP, V_LZO, V_ZSTD>>, "str"),
       Option(F_SCHEDULE_HOUR, FALSE, NoChoices, "str"),
       Option(F_SCHEDULE_MINUTE, FALSE, NoChoices, "str"),
       Option(F_SCHEDULE_DAY, FALSE, NoChoices, "str"),
       Option(F_SCHEDULE_MONTH, FALSE, NoChoices, "str"),
       Option(F_SCHEDULE_WEEKDAY, FALSE, NoChoices, "str") >>

\* subparsers.add_parser(...): sub-command -> its options
Subparsers ==
    << <<CMD_LIST, <<>>>>, <<CMD_RUN, RunOptions>>, <<CMD_VM, VmOptions>>,
       <<CMD_CT, CtOptions>>, <<CMD_CLUSTER, ClusterOptions>>,
       <<CMD_BACKUP, BackupOptions>> >>

\* the attribute argparse stores an option under
Dest(name) == Replace(name, HYPHEN, UNDERSCORE)

\* int(s) is defined: an optional sign and digits
IsIntLiteral(s) ==
    LET body == IF s # <<>> /\ s[1] \in {"-", "+"} THEN Tail(s) ELSE s
    IN  body # <<>> /\ \A i \in 1..Len(body) : IsDigit(body[i])

RECURSIVE DigitsValue(_, _)
DigitsValue(s, acc) ==
    IF s = <<>> THEN acc ELSE DigitsValue(Tail(s), 10 * acc + DigitVal(s[1]))

IntOf(s) ==
    IF s[1] = "-" THEN 0 - DigitsValue(Tail(s), 0)
    ELSE IF s[1] = "+" THEN DigitsValue(Tail(s), 0)
    ELSE DigitsValue(s, 0)

\* the value argparse stores for a given option
Converted(option, value) ==
    CASE option.type = "store_true" -> PyBool(TRUE)
      [] option.type = "int" -> PyInt(IntOf(value))
      [] OTHER -> PyStr(value)

\* argparse accepts the value given for an option
Accepts(option, value) ==
    /\ option.choices # NoChoices
          => \E k \in 1..Len(option.choices) : option.choices[k] = value
    /\ option.type = "int" => IsIntLiteral(value)

OptionNamed(options, name) ==
    options[CHOOSE j \in 1..Len(options) : options[j].name = name]

UsageError == [ok |-> FALSE, ns |-> <<>>]
Namespace(items) == [ok |-> TRUE, ns |-> items]

\* the attributes of the Namespace before the given options are stored
Defaults(command, options) ==
    << <<D_COMMAND, command>> >>
    \o [j \in 1..Len(options) |->
           <<Dest(options[j].name),
             IF options[j].type = "store_true" THEN PyBool(FALSE) ELSE None>>]

\* parse_args() on a command line
parse_args(line) ==
    IF line.command = None
    THEN IF line.options = <<>> THEN Namespace(Defaults(None, <<>>)) ELSE UsageError
    ELSE IF ~HasKey(Subparsers, line.command.s) THEN UsageError
    ELSE LET options == Get(Subparsers, line.command.s)
             known(i) == \E j \in 1..Len(options) : options[j].name = line.options[i][1]
         IN  IF /\ \A i \in 1..Len(line.options) :
                      /\ known(i)
                      /\ Accepts(OptionNamed(options, line.options[i][1]),
                                 line.options[i][2])
                /\ \A j \in 1..Len(options) :
                      options[j].required
                         => \E i \in 1..Len(line.options) :
                               line.options[i][1] = options[j].name
             THEN Namespace(
                    Update(Defaults(line.command, options),
                           [i \in 1..Len(line.options) |->
                               <<Dest(line.options[i][1]),
                                 Converted(OptionNamed(options, line.options[i][1]),
                                           line.options[i][2])>>]))
             ELSE UsageError

\* getattr(args, name, None)
GetAttr(ns, name) == IF HasKey(ns, name) THEN Get(ns, name) ELSE None

\* for arg in names: value = getattr(args, arg.replace("-", "_"), None);
\*                   if value is not None: kwargs[arg] = value
RECURSIVE CollectKwargs(_, _, _)
CollectKwargs(ns, names, kwargs) ==
    IF names = <<>> THEN kwargs
    ELSE LET value == GetAttr(ns, Replace(names[1], HYPHEN, UNDERSCORE))
         IN  CollectKwargs(ns, Tail(names),
                           IF value # None THEN SetItem(kwargs, names[1], value)
                           ELSE kwargs)

\* the attribute lists of handle_vm_command and handle_ct_command
VmKwargNames == <<K_MEMORY, K_CORES, K_DISK_SIZE, K_STORAGE, K_TEMPLATE, K_ISO>>

CtKwargNames == <<K_MEMORY, K_CORES, K_DISK, K_STORAGE, K_OSTEMPLATE>>

\* schedule_params of handle_backup_command
schedule_params ==
    <<K_SCHEDULE_HOUR, K_SCHEDULE_MINUTE, K_SCHEDULE_DAY, K_SCHEDULE_MONTH,
      K_SCHEDULE_WEEKDAY>>

\* the kwargs handle_backup_command collects
BackupKwargs(ns) ==
    SetIfTruthy(SetIfTruthy(CollectKwargs(ns, schedule_params, <<>>),
                            K_MODE, Get(ns, K_MODE)),
                K_COMPRESS, Get(ns, K_COMPRESS))

\* tags of handle_run_command: [tag.strip() for tag in args.tags.split(",")]
ParseTags(text) ==
    LET parts == Split(text, SEP_COMMA)
    IN  PyList([i \in 1..Len(parts) |-> PyStr(Strip(parts[i]))])

\* exit statuses: the end of main, sys.exit(1), and argparse's usage error
EXIT_OK == PyInt(0)
EXIT_ERROR == PyInt(1)
EXIT_USAGE == PyInt(2)

(***************************************************************************)
(* One run of ansible_cli.py: InitCLI is the process at the start of main  *)
(* with its command line and the playbooks directory as it is; ParseArgs   *)
(* is line 285, each Handle action is one branch of main with the whole    *)
(* handler it calls, up to the end of the process.                         *)
(***************************************************************************)
CommandLine(command, options) ==
    [given |-> TRUE, command |-> command, options |-> options]

\* An option given with a value drawn from a set, or left out.
OptionalOption(name, values) == { <<>> } \cup { << <<name, v>> >> : v \in values }

RunLines ==
    { CommandLine(PyStr(CMD_RUN), p \o v \o rest) :
        p \in OptionalOption(D_PLAYBOOK, { PB_VM, N_NOPE }),
        v \in OptionalOption(D_VARS,
                 { EMPTY, VARS_AB, VARS_COMPACT, VARS_BAD, VARS_EMPTY_OBJ }),
        rest \in { <<>>,
                   << <<D_LIMIT, V_PVE1>>, <<D_TAGS, TAGS_T1_T2>>,
                      <<D_VERBOSE, EMPTY>> >>,
                   << <<D_TAGS, SEP_COMMA>> >>,
                   << <<D_FORCE, EMPTY>> >> } }

VmLines ==
    { CommandLine(PyStr(CMD_VM), o \o rest) :
        o \in OptionalOption(K_OPERATION, { OP_CREATE, OP_STOP, OP_BOGUS }),
        rest \in { <<>>,
                   << <<F_VM_ID, V_100>>, <<F_VM_NAME, V_TEST>>, <<K_MEMORY, V_2048>> >>,
                   << <<F_VM_ID, V_100>>, <<K_NODE, V_PVE1>>, <<F_DISK_SIZE, V_100>>,
                      <<K_ISO, V_X>> >>,
                   << <<K_MEMORY, V_ABC>> >> } }

CtLines ==
    { CommandLine(PyStr(CMD_CT), o \o rest) :
        o \in OptionalOption(K_OPERATION, { OP_START, OP_BOGUS }),
        rest \in { <<>>,
                   << <<F_CT_ID, V_100>>, <<D_HOSTNAME, V_TEST>>, <<K_CORES, V_0>>,
                      <<K_DISK, V_100>> >> } }

ClusterLines ==
    { CommandLine(PyStr(CMD_CLUSTER), o \o rest) :
        o \in OptionalOption(K_OPERATION, { OP_STATUS, OP_JOIN_CLUSTER, OP_BOGUS }),
        rest \in { <<>>,
                   << <<F_TARGET_NODE, V_PVE1>> >>,
                   << <<F_SOURCE_NODE, V_PVE2>>, <<F_CLUSTER_NAME, V_MYCLUSTER>> >> } }

BackupLines ==
    { CommandLine(PyStr(CMD_BACKUP), o \o m \o c \o rest) :
        o \in OptionalOption(K_OPERATION, { OP_CREATE }),
        m \in OptionalOption(K_MODE, { V_SNAPSHOT, V_SUSPEND, V_STOP, V_FULL }),
        c \in OptionalOption(K_COMPRESS,
                 { V_NONE, V_0, V_GZIP, V_LZO, V_ZSTD, V_BZIP2 }),
        rest \in { <<>> } }
    \cup
    { CommandLine(PyStr(CMD_BACKUP), << <<K_OPERATION, OP_SCHEDULE>> >> \o rest) :
        rest \in { << <<F_VM_ID, V_0>>, <<F_SCHEDULE_HOUR, V_0>>,
                      <<F_SCHEDULE_WEEKDAY, V_X>> >>,
                   << <<F_VM_ID, EMPTY>>, <<K_STORAGE, V_LOCAL>>,
                      <<F_BACKUP_ID, V_B1>>, <<K_NODE, V_PVE1>> >> } }

\* The command lines tried.
CommandLines ==
    { CommandLine(None, <<>>), CommandLine(None, << <<D_PLAYBOOK, PB_VM>> >>),
      CommandLine(PyStr(CMD_BOGUS), <<>>), CommandLine(PyStr(CMD_LIST), <<>>) }
    \cup RunLines \cup VmLines \cup CtLines \cup ClusterLines \cup BackupLines

\* listing is what os.listdir gave the scan: nothing before the scan is made
InitCLI ==
    /\ argv \in CommandLines
    /\ listing = <<>>
    /\ available_playbooks = <<>>
    /\ pc = "start"
    /\ call = NoCall
    /\ runner = NotCalled
    /\ subprocess = NotRun
    /\ result = NoResult
    /\ args = NoArgs
    /\ exit_code = Running
    /\ scans = 0
    /\ runs = 0

\* args = parse_args(): argparse ends the process on a usage error
ParseArgs ==
    /\ pc = "start"
    /\ \E parsed \in { parse_args(argv) } :
          IF parsed.ok
          THEN /\ args' = parsed.ns
               /\ pc' = "main"
               /\ UNCHANGED exit_code
          ELSE /\ args' = NoArgs
               /\ pc' = "exit"
               /\ exit_code' = EXIT_USAGE
    /\ UNCHANGED <<listing, available_playbooks, call, runner, subprocess, result,
                   argv, scans, runs>>

\* the construction with a second scan of the directory
Constructed_ScansTwice(entries, self) ==
    /\ entries \in Listings
    /\ self = _scan_playbooks(entries)
    /\ listing' = entries
    /\ available_playbooks' = self
    /\ scans' = scans + 2

\* ansible_mgr = AnsibleManager(): the directory is listed and scanned once
Constructed(entries, self) ==
    /\ entries \in Listings
    /\ self = _scan_playbooks(entries)
    /\ listing' = entries
    /\ available_playbooks' = self
    /\ scans' = scans + 1

\* A handler came to its end: the method called did what `done` says, and the
\* process ends with `code`.
Handled(method, arguments, done, code) ==
    /\ call' = [method |-> method, args |-> arguments]
    /\ runner' = done.runner
    /\ subprocess' = done.subprocess
    /\ runs' = IF done.subprocess.ran THEN runs + 1 ELSE runs
    /\ result' = done.result
    /\ exit_code' = code
    /\ pc' = "exit"
    /\ UNCHANGED <<argv, args>>

\* sys.exit(1) in handle_run_command, before run_playbook is called
Refused == [result |-> NoResult, runner |-> NotCalled, subprocess |-> NotRun]

Dispatched(command) == pc = "main" /\ Get(args, D_COMMAND) = PyStr(command)

\* handle_list_command()
HandleListCommand ==
    /\ Dispatched(CMD_LIST)
    /\ \E entries \in Listings :
       \E self \in { _scan_playbooks(entries) } :
          /\ Constructed(entries, self)
          /\ Handled("list_playbooks", <<>>,
                     [result |-> list_playbooks(self), runner |-> NotCalled,
                      subprocess |-> NotRun],
                     EXIT_OK)

\* the arguments handle_run_command calls run_playbook with
RunArguments(ns) ==
    [playbook_name |-> Get(ns, D_PLAYBOOK).s,
     extra_vars |-> IF Truthy(Get(ns, D_VARS)) THEN JsonLoads(Get(ns, D_VARS).s).v
                    ELSE None,
     limit_hosts |-> Get(ns, D_LIMIT),
     tags |-> IF Truthy(Get(ns, D_TAGS)) THEN ParseTags(Get(ns, D_TAGS).s) ELSE None,
     verbose |-> Get(ns, D_VERBOSE)]

\* handle_run_command with the check of the playbook name left out
RunChecks_NoNameCheck(self, ns) ==
    IF Truthy(Get(ns, D_VARS)) /\ ~JsonLoads(Get(ns, D_VARS).s).ok
    THEN "exit" ELSE "run"

\* the two checks of handle_run_command that end in sys.exit(1): the playbook
\* name first, then the text of --vars if it is not empty
RunChecks(self, ns) ==
    IF \A i \in 1..Len(list_playbooks(self)) :
          list_playbooks(self)[i] # Get(ns, D_PLAYBOOK).s
    THEN "exit"
    ELSE IF Truthy(Get(ns, D_VARS)) /\ ~JsonLoads(Get(ns, D_VARS).s).ok
    THEN "exit"
    ELSE "run"

\* handle_run_command(args)
HandleRunCommand ==
    /\ Dispatched(CMD_RUN)
    /\ \E entries \in Listings :
       \E self \in { _scan_playbooks(entries) } :
          /\ Constructed(entries, self)
          /\ IF RunChecks(self, args) = "exit"
             THEN Handled("none", <<>>, Refused, EXIT_ERROR)
             ELSE \E a \in { RunArguments(args) }, outcome \in Outcomes :
                  \E done \in { run_playbook(self, a.playbook_name, a.extra_vars,
                                             a.limit_hosts, a.tags, a.verbose,
                                             outcome) } :
                     Handled("run_playbook", a, done, EXIT_OK)

\* the arguments handle_vm_command calls run_vm_management with
VmArguments(ns) ==
    [operation |-> Get(ns, K_OPERATION).s, vm_id |-> Get(ns, K_VM_ID),
     vm_name |-> Get(ns, K_VM_NAME), node |-> Get(ns, K_NODE),
     kwargs |-> CollectKwargs(ns, VmKwargNames, <<>>)]

\* handle_vm_command(args)
HandleVmCommand ==
    /\ Dispatched(CMD_VM)
    /\ \E entries \in Listings, a \in { VmArguments(args) }, outcome \in Outcomes :
       \E self \in { _scan_playbooks(entries) } :
       \E done \in { run_vm_management(self, a.operation, a.vm_id, a.vm_name,
                                       a.node, a.kwargs, outcome) } :
          /\ Constructed(entries, self)
          /\ Handled("run_vm_management", a, done, EXIT_OK)

\* the arguments handle_ct_command calls run_container_management with
CtArguments(ns) ==
    [operation |-> Get(ns, K_OPERATION).s, ct_id |-> Get(ns, K_CT_ID),
     ct_hostname |-> Get(ns, D_HOSTNAME), node |-> Get(ns, K_NODE),
     kwargs |-> CollectKwargs(ns, CtKwargNames, <<>>)]

\* handle_ct_command(args)
HandleCtCommand ==
    /\ Dispatched(CMD_CT)
    /\ \E entries \in Listings, a \in { CtArguments(args) }, outcome \in Outcomes :
       \E self \in { _scan_playbooks(entries) } :
       \E done \in { run_container_management(self, a.operation, a.ct_id,
                                              a.ct_hostname, a.node, a.kwargs,
                                              outcome) } :
          /\ Constructed(entries, self)
          /\ Handled("run_container_management", a, done, EXIT_OK)

\* the arguments handle_cluster_command calls run_cluster_management with
ClusterArguments(ns) ==
    [operation |-> Get(ns, K_OPERATION).s, target_node |-> Get(ns, K_TARGET_NODE),
     source_node |-> Get(ns, K_SOURCE_NODE), cluster_name |-> Get(ns, K_CLUSTER_NAME),
     kwargs |-> <<>>]

\* handle_cluster_command(args)
HandleClusterCommand ==
    /\ Dispatched(CMD_CLUSTER)
    /\ \E entries \in Listings, a \in { ClusterArguments(args) }, outcome \in Outcomes :
       \E self \in { _scan_playbooks(entries) } :
       \E done \in { run_cluster_management(self, a.operation, a.target_node,
                                            a.source_node, a.cluster_name, a.kwargs,
                                            outcome) } :
          /\ Constructed(entries, self)
          /\ Handled("run_cluster_management", a, done, EXIT_OK)

\* the arguments handle_backup_command calls run_backup_management with
BackupArguments(ns) ==
    [operation |-> Get(ns, K_OPERATION).s, vm_id |-> Get(ns, K_VM_ID),
     backup_id |-> Get(ns, K_BACKUP_ID), storage |-> Get(ns, K_STORAGE),
     node |-> Get(ns, K_NODE), kwargs |-> BackupKwargs(ns)]

\* handle_backup_command(args)
HandleBackupCommand ==
    /\ Dispatched(CMD_BACKUP)
    /\ \E entries \in Listings, a \in { BackupArguments(args) }, outcome \in Outcomes :
       \E self \in { _scan_playbooks(entries) } :
       \E done \in { run_backup_management(self, a.operation, a.vm_id, a.backup_id,
                                           a.storage, a.node, a.kwargs, outcome) } :
          /\ Constructed(entries, self)
          /\ Handled("run_backup_management", a, done, EXIT_OK)

\* the else branch of main: no sub-command was given
NoCommand ==
    /\ pc = "main"
    /\ Get(args, D_COMMAND) = None
    /\ exit_code' = EXIT_ERROR
    /\ pc' = "exit"
    /\ UNCHANGED <<listing, available_playbooks, call, runner, subprocess, result,
                   argv, args, scans, runs>>

NextCLI ==
    \/ ParseArgs
    \/ HandleListCommand
    \/ HandleRunCommand
    \/ HandleVmCommand
    \/ HandleCtCommand
    \/ HandleClusterCommand
    \/ HandleBackupCommand
    \/ NoCommand

SpecCLI == InitCLI /\ [][NextCLI]_vars

(***************************************************************************)
(* What the claims speak of, said without the code's own operators.        *)
(***************************************************************************)
Returned(method) == pc = "returned" /\ call.method = method

Mappers ==
    { "run_vm_management", "run_container_management",
      "run_cluster_management", "run_backup_management" }

\* the enumerated operation keywords of a family
LifecycleKeywords == { OP_CREATE, OP_START, OP_STOP, OP_RESTART, OP_DELETE }

ClusterKeywords ==
    { OP_STATUS, OP_CREATE_CLUSTER, OP_JOIN_CLUSTER, OP_LEAVE_CLUSTER, OP_ENABLE_HA }

BackupKeywords == { OP_LIST, OP_CREATE, OP_RESTORE, OP_DELETE, OP_SCHEDULE }

KeywordsOf(method) ==
    CASE method = "run_vm_management" -> LifecycleKeywords
      [] method = "run_container_management" -> LifecycleKeywords
      [] method = "run_cluster_management" -> ClusterKeywords
      [] method = "run_backup_management" -> BackupKeywords

\* the fixed playbook of a family
TargetOf(method) ==
    CASE method = "run_vm_management" -> PB_VM
      [] method = "run_container_management" -> PB_CT
      [] method = "run_cluster_management" -> PB_CLUSTER
      [] method = "run_backup_management" -> PB_BACKUP

\* the documented state keyword of a lifecycle operation keyword
StateOf(operation) ==
    CASE operation = OP_CREATE -> ST_PRESENT
      [] operation = OP_START -> ST_STARTED
      [] operation = OP_STOP -> ST_STOPPED
      [] operation = OP_RESTART -> ST_RESTARTED
      [] operation = OP_DELETE -> ST_ABSENT

Registered(name) == HasKey(available_playbooks, name)

KnownNames == { available_playbooks[i][1] : i \in 1..Len(available_playbooks) }

\* the text of s after the first place where marker stands
After(s, marker) ==
    LET first == CHOOSE i \in 1..Len(s) :
                    /\ OccursAt(s, i, marker)
                    /\ \A j \in 1..(i - 1) : ~OccursAt(s, j, marker)
    IN  SubSeq(s, first + Len(marker), Len(s))

\* the names a message lists after "Available playbooks: ", separated by commas
NamesListed(output) ==
    LET parts == Split(After(output, AVAILABLE), SEP_COMMA)
    IN  { Strip(parts[i]) : i \in 1..Len(parts) } \ { EMPTY }

\* a mapping read as a function of its keys
HasItem(mapping, key, value) ==
    \E i \in 1..Len(mapping.items) : mapping.items[i] = <<key, value>>

HasNoKey(mapping, key) == \A i \in 1..Len(mapping.items) : mapping.items[i][1] # key

\* an optional argument counts as given when it is neither None nor empty
Given(x) == x \notin { None, PyStr(<<>>), PyList(<<>>), PyDict(<<>>) }

--------------------------------------------------------------------------
\* C1: for all four families, a mapper called with an operation keyword
\* outside the family's enumerated set returns a failed result and makes no
\* subprocess.run call, whatever the registry holds.  (The claim as stated.)
C1_InvalidOperationFails ==
    (/\ pc = "returned"
     /\ call.method \in Mappers
     /\ call.args.operation \notin KeywordsOf(call.method))
    => /\ result[1] = FALSE
       /\ subprocess = NotRun

\* C2: run_playbook entered with a name that is no key of the registry,
\* directly or through a mapper whose fixed playbook is absent, returns
\* success = FALSE with a message that contains "not found" and lists exactly
\* the known names (none for an empty registry), and subprocess.run is not called.
C2_UnknownPlaybookFails ==
    (/\ pc = "returned"
     /\ runner.called
     /\ ~Registered(runner.playbook_name))
    => /\ result[1] = FALSE
       /\ Contains(result[2], NOT_FOUND)
       /\ NamesListed(result[2]) = KnownNames
       /\ subprocess = NotRun

\* C2 happens: a mapper reached run_playbook, its playbook is absent and the
\* registry holds two other names.
C2_Witness ==
    /\ Returned("run_backup_management")
    /\ runner.called
    /\ ~Registered(PB_BACKUP)
    /\ Cardinality(KnownNames) = 2

\* C3: for a known name the result is decided by the subprocess outcome: exit
\* code 0 gives (TRUE, stdout); another exit code gives (FALSE, "Error: " +
\* stderr); a failure to start gives (FALSE, "Exception: " + description) and the
\* method still returns.
C3_ResultFollowsOutcome ==
    (/\ runner.called
     /\ Registered(runner.playbook_name))
    => /\ pc = "returned"
       /\ subprocess.ran
       /\ LET o == subprocess.outcome
          IN  /\ (o.kind = "exit" /\ o.returncode = 0) => result = <<TRUE, o.stdout>>
              /\ (o.kind = "exit" /\ o.returncode # 0)
                    => result = <<FALSE, MSG_ERROR \o o.stderr>>
              /\ o.kind = "raise" => result = <<FALSE, MSG_EXCEPTION \o o.error>>

\* C3 happens: the tool exited with code 2 and "host unreachable" on stderr.
C3_Witness ==
    /\ Returned("run_playbook")
    /\ subprocess.ran
    /\ subprocess.outcome = Exited(2, OUT_OK, ERR_UNREACHABLE)
    /\ result = <<FALSE, MSG_ERROR \o ERR_UNREACHABLE>>

\* the arguments of a lifecycle mapper call under common names, and the keys
\* the mapper uses
Lifecycle ==
    IF call.method = "run_vm_management"
    THEN [id |-> call.args.vm_id, name |-> call.args.vm_name,
          stateKey |-> K_VM_STATE, idKey |-> K_VM_ID, nameKey |-> K_VM_NAME,
          nodeKey |-> K_VM_NODE]
    ELSE [id |-> call.args.ct_id, name |-> call.args.ct_hostname,
          stateKey |-> K_CT_STATE, idKey |-> K_CT_ID, nameKey |-> K_CT_HOSTNAME,
          nodeKey |-> K_CT_NODE]

LifecycleCall ==
    /\ pc = "returned"
    /\ call.method \in { "run_vm_management", "run_container_management" }
    /\ call.args.operation \in LifecycleKeywords

\* C4 as stated: for every lifecycle keyword and every identifier, name, node
\* and additional attributes, the mapping handed to run_playbook has the state
\* field equal to the mapped keyword, carries identifier and name, carries the
\* node key only if a node was supplied, and carries every additional attribute
\* verbatim.
C4_AsStated ==
    LifecycleCall
    => /\ runner.called
       /\ HasItem(runner.extra_vars, Lifecycle.stateKey,
                  PyStr(StateOf(call.args.operation)))
       /\ HasItem(runner.extra_vars, Lifecycle.idKey, Lifecycle.id)
       /\ HasItem(runner.extra_vars, Lifecycle.nameKey, Lifecycle.name)
       /\ (~HasNoKey(runner.extra_vars, Lifecycle.nodeKey) => call.args.node # None)
       /\ \A i \in 1..Len(call.args.kwargs) :
             HasItem(runner.extra_vars, call.args.kwargs[i][1], call.args.kwargs[i][2])

\* C4 amended: as C4, but an additional attribute that is itself named
\* vm_state / ct_state or vm_node / ct_node takes the place of the mapper's own
\* value: the state field is the mapped keyword unless such an attribute is
\* passed, and the node key is present only if a node was supplied or such an
\* attribute is passed.
C4_LifecycleMapping ==
    LifecycleCall
    => /\ runner.called
       /\ (~HasKey(call.args.kwargs, Lifecycle.stateKey)
             => HasItem(runner.extra_vars, Lifecycle.stateKey,
                        PyStr(StateOf(call.args.operation))))
       /\ HasItem(runner.extra_vars, Lifecycle.idKey, Lifecycle.id)
       /\ HasItem(runner.extra_vars, Lifecycle.nameKey, Lifecycle.name)
       /\ (~HasNoKey(runner.extra_vars, Lifecycle.nodeKey)
             => \/ call.args.node # None
                \/ HasKey(call.args.kwargs, Lifecycle.nodeKey))
       /\ \A i \in 1..Len(call.args.kwargs) :
             HasItem(runner.extra_vars, call.args.kwargs[i][1], call.args.kwargs[i][2])
       /\ \A i, j \in 1..Len(runner.extra_vars.items) :
             runner.extra_vars.items[i][1] = runner.extra_vars.items[j][1] => i = j

\* C4 happens: the scenario of the specification, VM create with vm_id "100",
\* vm_name "test", memory 2048 and no node, hands over exactly that mapping.
C4_Witness ==
    /\ Returned("run_vm_management")
    /\ call.args.operation = OP_CREATE
    /\ call.args.node = None
    /\ runner.called
    /\ runner.extra_vars =
          PyDict(<< <<K_VM_STATE, PyStr(ST_PRESENT)>>, <<K_VM_ID, PyStr(V_100)>>,
                    <<K_VM_NAME, PyStr(V_TEST)>>, <<K_MEMORY, PyInt(2048)>> >>)

\* a file name with a recognized extension, and the name less that extension
HasExtension(file) == EndsWith(file, EXT_YML) \/ EndsWith(file, EXT_YAML)

Stem(file) ==
    IF EndsWith(file, EXT_YAML) THEN SubSeq(file, 1, Len(file) - Len(EXT_YAML))
    ELSE SubSeq(file, 1, Len(file) - Len(EXT_YML))

\* C5 as stated: for a directory with N files that end in .yml or .yaml and M
\* that do not, list_playbooks() returns exactly N names, each the file name
\* with only the trailing extension removed.
C5_ListIsStems ==
    Returned("list_playbooks")
    => LET recognized == { i \in 1..Len(listing) : HasExtension(listing[i]) }
       IN  /\ Len(result) = Cardinality(recognized)
           /\ { result[i] : i \in 1..Len(result) }
                 = { Stem(listing[i]) : i \in recognized }

\* C6: for a known name and every verbose, limit_hosts, tags and extra_vars,
\* the command is, in this order: the executable, the registry's path of the
\* name, -vvv iff verbose, -l <limit> iff a limit is given, -t <tags joined by
\* commas> iff tags are given, --extra-vars <JSON that reads back as extra_vars>
\* iff extra_vars is not empty; and nothing else.
C6_ArgumentVector ==
    (Returned("run_playbook") /\ Registered(call.args.playbook_name))
    => /\ subprocess.ran
       /\ LET a == call.args
              cmd == subprocess.cmd
              head == <<ANSIBLE_PLAYBOOK, Get(available_playbooks, a.playbook_name)>>
                      \o (IF a.verbose = PyBool(TRUE) THEN <<OPT_VVV>> ELSE <<>>)
                      \o (IF Given(a.limit_hosts) THEN <<OPT_L, a.limit_hosts.s>>
                          ELSE <<>>)
              n == Len(head)
              rest == SubSeq(cmd, n + 1, Len(cmd))
              afterTags == IF Given(a.tags) THEN SubSeq(rest, 3, Len(rest)) ELSE rest
          IN  /\ Len(cmd) >= n
              /\ SubSeq(cmd, 1, n) = head
              /\ Given(a.tags)
                    => /\ Len(rest) >= 2
                       /\ rest[1] = OPT_T
                       /\ Split(rest[2], SEP_COMMA)
                             = [i \in 1..Len(a.tags.xs) |-> a.tags.xs[i].s]
              /\ IF Given(a.extra_vars)
                 THEN /\ Len(afterTags) = 2
                      /\ afterTags[1] = OPT_EXTRA_VARS
                      /\ JsonLoads(afterTags[2]).ok
                      /\ JsonLoads(afterTags[2]).v = a.extra_vars
                 ELSE afterTags = <<>>

\* C6 happens: every optional part is present at once.
C6_Witness ==
    /\ Returned("run_playbook")
    /\ subprocess.ran
    /\ Len(subprocess.cmd) = 9
    /\ subprocess.cmd[3] = OPT_VVV
    /\ subprocess.cmd[5] = V_PVE1
    /\ subprocess.cmd[7] = T_T1 \o SEP_COMMA \o T_T2
    /\ subprocess.cmd[9] = VARS_AB

\* the keyword arguments the backup command may pass on
BackupOptionKeys ==
    { K_MODE, K_COMPRESS, K_SCHEDULE_HOUR, K_SCHEDULE_MINUTE, K_SCHEDULE_DAY,
      K_SCHEDULE_MONTH, K_SCHEDULE_WEEKDAY }

\* key carries value in the mapping iff a value was provided
CarriedIffProvided(mapping, key, value) ==
    IF value # None THEN HasItem(mapping, key, value) ELSE HasNoKey(mapping, key)

\* C8 as stated: for every backup operation keyword the mapping handed to
\* run_playbook contains operation and, for each of vm id, backup id, storage,
\* node, mode, compress and the five schedule fields, that key with the supplied
\* value iff the caller provided a value (0 and "0" are values).
C8_BackupMapping ==
    (Returned("run_backup_management") /\ call.args.operation \in BackupKeywords)
    => /\ runner.called
       /\ HasItem(runner.extra_vars, K_OPERATION, PyStr(call.args.operation))
       /\ CarriedIffProvided(runner.extra_vars, K_VM_ID, call.args.vm_id)
       /\ CarriedIffProvided(runner.extra_vars, K_BACKUP_ID, call.args.backup_id)
       /\ CarriedIffProvided(runner.extra_vars, K_STORAGE, call.args.storage)
       /\ CarriedIffProvided(runner.extra_vars, K_NODE, call.args.node)
       /\ \A key \in BackupOptionKeys :
             IF HasKey(call.args.kwargs, key)
             THEN HasItem(runner.extra_vars, key, Get(call.args.kwargs, key))
             ELSE HasNoKey(runner.extra_vars, key)

\* C10: a mapper called with a keyword of its family while its fixed playbook
\* is registered runs exactly: the executable, the registry's path of that
\* playbook, --extra-vars, and JSON that reads back as the mapping it built; no
\* -l, no -t, no -vvv.
C10_DerivedArgumentVector ==
    (/\ pc = "returned"
     /\ call.method \in Mappers
     /\ call.args.operation \in KeywordsOf(call.method)
     /\ Registered(TargetOf(call.method)))
    => /\ runner.called
       /\ subprocess.ran
       /\ Len(subprocess.cmd) = 4
       /\ subprocess.cmd[1] = ANSIBLE_PLAYBOOK
       /\ subprocess.cmd[2] = Get(available_playbooks, TargetOf(call.method))
       /\ subprocess.cmd[3] = OPT_EXTRA_VARS
       /\ JsonLoads(subprocess.cmd[4]).ok
       /\ JsonLoads(subprocess.cmd[4]).v = runner.extra_vars

\* C10 happens: the cluster mapper ran its playbook for join_cluster.
C10_Witness ==
    /\ Returned("run_cluster_management")
    /\ call.args.operation = OP_JOIN_CLUSTER
    /\ subprocess.ran
    /\ subprocess.cmd[2] = PathJoin(playbooks_path, PB_CLUSTER \o EXT_YML)
    /\ HasItem(runner.extra_vars, K_SOURCE_NODE, PyStr(V_PVE2))

(***************************************************************************)
(* The command line as the claims speak of it.                             *)
(***************************************************************************)
Exits == pc = "exit"

SubCommands == { CMD_LIST, CMD_RUN, CMD_VM, CMD_CT, CMD_CLUSTER, CMD_BACKUP }

OptionGiven(name) == \E i \in 1..Len(argv.options) : argv.options[i][1] = name

OptionValue(name) ==
    argv.options[CHOOSE i \in 1..Len(argv.options) : argv.options[i][1] = name][2]

CommandIs(command) == argv.command = PyStr(command)

\* the texts of --vars tried that are JSON
JsonTexts == { VARS_AB, VARS_COMPACT, VARS_EMPTY_OBJ }

\* the names of the files a scan of the directory registers
NamesScanned == { Stem(listing[i]) : i \in { j \in 1..Len(listing) : HasExtension(listing[j]) } }

\* the command line is one argparse takes: a known sub-command (or none and
\* nothing else), only options of that sub-command, every required option,
\* every value within the choices and the type of its option
Wellformed ==
    IF argv.command = None THEN argv.options = <<>>
    ELSE /\ argv.command.s \in SubCommands
         /\ LET options == Get(Subparsers, argv.command.s)
                declared == { options[j] : j \in 1..Len(options) }
            IN  /\ \A i \in 1..Len(argv.options) :
                      \E o \in declared :
                         /\ o.name = argv.options[i][1]
                         /\ o.choices = NoChoices
                               \/ argv.options[i][2]
                                     \in { o.choices[k] : k \in 1..Len(o.choices) }
                         /\ o.type # "int" \/ IsIntLiteral(argv.options[i][2])
                /\ \A o \in declared : o.required => OptionGiven(o.name)

BackupCommand ==
    /\ Exits
    /\ CommandIs(CMD_BACKUP)
    /\ OptionGiven(K_OPERATION)
    /\ OptionValue(K_OPERATION) \in BackupKeywords

\* argparse took the command line
Accepted == args # NoArgs

\* the value of key in the JSON handed to the subprocess is in the set, or the
\* key is not there
WithinIfSent(key, values) ==
    subprocess.ran
    => LET sent == JsonLoads(subprocess.cmd[Len(subprocess.cmd)]).v
       IN  \A i \in 1..Len(sent.items) :
              sent.items[i][1] = key => sent.items[i][2] \in values

ValuesAccepted(compressions, modes) ==
    BackupCommand
    => /\ Accepted <=> /\ OptionGiven(K_COMPRESS) => OptionValue(K_COMPRESS) \in compressions
                       /\ OptionGiven(K_MODE) => OptionValue(K_MODE) \in modes
       /\ WithinIfSent(K_COMPRESS, { PyStr(c) : c \in compressions })
       /\ WithinIfSent(K_MODE, { PyStr(m) : m \in modes })

\* C9 as stated: the backup command accepts a compression method exactly when
\* it is one of none, gzip, lzo, zstd and a mode exactly when it is one of
\* snapshot, suspend, stop, and no other value reaches the mapping of a
\* subprocess.
C9_AsStated ==
    ValuesAccepted({ V_NONE, V_GZIP, V_LZO, V_ZSTD }, { V_SNAPSHOT, V_SUSPEND, V_STOP })

\* C9 amended: the backup command of the command line accepts a compression
\* method exactly when it is one of 0, gzip, lzo, zstd (none is refused) and a
\* mode exactly when it is one of snapshot, suspend, stop, and no other value
\* reaches the mapping of a subprocess it starts.
C9_ChoicesAccepted ==
    ValuesAccepted({ V_0, V_GZIP, V_LZO, V_ZSTD }, { V_SNAPSHOT, V_SUSPEND, V_STOP })

\* C9 happens: --mode stop --compress 0 was taken and both are in the mapping
\* of the subprocess.
C9_Witness ==
    /\ BackupCommand
    /\ Accepted
    /\ subprocess.ran
    /\ HasItem(runner.extra_vars, K_COMPRESS, PyStr(V_0))
    /\ HasItem(runner.extra_vars, K_MODE, PyStr(V_STOP))

\* C11: every run of the command line, for every sub-command and every
\* outcome, makes at most one scan of the directory and at most one
\* subprocess.run call before it exits, and a subprocess.run call is made only
\* after the scan.
C11_OneScanOneRun ==
    /\ scans <= 1
    /\ runs <= 1
    /\ runs = 1 => scans = 1
    /\ subprocess.ran => runs = 1 /\ scans = 1
    /\ pc # "exit" => scans = 0 /\ runs = 0

\* C11 happens: a run command ended after one scan and one subprocess.run
\* call that failed to start the tool.
C11_Witness ==
    /\ Exits
    /\ CommandIs(CMD_RUN)
    /\ scans = 1
    /\ runs = 1
    /\ subprocess.ran
    /\ subprocess.outcome.kind = "raise"

\* C12: after __init__ the registry (name -> path) is changed by no list, run,
\* vm, container, cluster or backup operation, whatever its arguments and
\* its outcome: no step of a caller of the manager changes it.
C12_RegistryUnchanged == [][available_playbooks' = available_playbooks]_vars

\* C12 happens: an operation ran a registered playbook, the tool could not
\* be started, and the registry is still what the scan of __init__ built.
C12_Witness ==
    /\ pc = "returned"
    /\ call.method \in Mappers \cup { "run_playbook" }
    /\ subprocess.ran
    /\ subprocess.outcome.kind = "raise"
    /\ Len(available_playbooks) = 2
    /\ available_playbooks = _scan_playbooks(listing)

\* the entries of the directory the scan registers: names that end in a
\* recognized extension (the scan does not ask what kind of entry it is)
EntriesScanned == { listing[i] : i \in { j \in 1..Len(listing) : HasExtension(listing[j]) } }

\* C13: whenever subprocess.run is called, by any operation with any
\* arguments, the playbook path in the command is the registry's value for the
\* name run_playbook was asked for, and that is the path, directly inside
\* playbooks_path, of an entry the scan found with a recognized extension; a
\* string of the caller is never the path.
C13_PathFromRegistry ==
    subprocess.ran
    => /\ runner.called
       /\ Registered(runner.playbook_name)
       /\ Len(subprocess.cmd) >= 2
       /\ subprocess.cmd[2] = Get(available_playbooks, runner.playbook_name)
       /\ \E file \in EntriesScanned :
             /\ SEP_PATH[1] \notin { file[k] : k \in 1..Len(file) }
             /\ subprocess.cmd[2] = playbooks_path \o SEP_PATH \o file
       /\ runner.playbook_name = PathTried => subprocess.cmd[2] # PathTried

\* C13 happens: run_playbook was asked for proxmox_vm_manager, the scan had
\* found proxmox_vm_manager.yaml, and that file's path is in the command.
C13_Witness ==
    /\ Returned("run_playbook")
    /\ call.args.playbook_name = PB_VM
    /\ subprocess.ran
    /\ subprocess.cmd[2] = playbooks_path \o SEP_PATH \o PB_VM \o EXT_YAML
=============================================================================
